---------------------------- MODULE Spec2Model ----------------------------
(***************************************************************************)
(* A model of the particle-network animation engine of                     *)
(* src/src/app/components/GracefullNodeNetwork.tsx: the effect that mounts *)
(* the engine, its pointer and resize handlers, the frame callback (tick:  *)
(* stepPhysics then draw) and the effect's cleanup; of the page that       *)
(* mounts it (src/src/app/page.tsx); and of the PDF export the page starts *)
(* (src/src/app/utilities/DownloadPdf.ts).                                 *)
(*                                                                         *)
(* Numbers.  The code computes in IEEE doubles.  The model computes in     *)
(* fixed point:                                                            *)
(*   lengths and positions   in 1/Unit pixel                               *)
(*   velocities              in 1/Unit pixel per second                    *)
(*   accelerations           in 1/Unit pixel per second^2                  *)
(*   times (performance.now) in milliseconds                               *)
(*   dimensionless factors (unit vectors, easing values, sines) in 1/1000  *)
(*   angles                  in milliradians                               *)
(* Every division truncates toward zero (TDiv) unless the code itself      *)
(* floors or ceils.                                                        *)
(***************************************************************************)
EXTENDS Integers, Sequences, FiniteSets, TLC

(***************************************************************************)
(* Bounds of the model.                                                    *)
(***************************************************************************)
MaxFrames == 2
MaxEvents == 1
MaxThrows == 2
MaxPageEvents == 4
MaxExports == 2

(***************************************************************************)
(* Fixed-point scales.                                                     *)
(***************************************************************************)
Unit == 10
Milli == 1000

(***************************************************************************)
(* Config of the effect (lines 121-134) and the literals of the code.      *)
(***************************************************************************)
particleCountBase == 220
maxLinkDist == 140
maxNeighbors == 5
baseSpeed == 40
flowStrength == 26
wanderStrength == 18
dampingMilli == 985
mouseAvoidRadius == 110
mouseAvoidStrength == 350
waveSpeed == 800
waveThickness == 90
waveImpulse == 900
waveDragMilli == 900
maxSpeed == 140
minV == 20
minParticles == 80
refWidth == 1920
refHeight == 1080
wrapMargin == 10
maxDtMs == 50

(***************************************************************************)
(* Utility math (lines 39-64).                                             *)
(***************************************************************************)
Abs(x) == IF x < 0 THEN -x ELSE x
Max(a, b) == IF a >= b THEN a ELSE b
Min(a, b) == IF a <= b THEN a ELSE b

\* Division rounding toward zero: the fixed-point image of a float quotient.
TDiv(a, b) == IF a >= 0 THEN a \div b ELSE -((-a) \div b)

\* Math.ceil(a / b) for a >= 0, b > 0.
CeilDiv(a, b) == (a + b - 1) \div b

\* clamp (line 39)
clamp(v, lo, hi) == Max(lo, Min(hi, v))

\* Integer square root, by bisection on [lo, hi].
RECURSIVE SqrtSearch(_, _, _)
SqrtSearch(n, lo, hi) ==
    IF lo >= hi THEN lo
    ELSE LET mid == (lo + hi + 1) \div 2
         IN  IF mid * mid <= n THEN SqrtSearch(n, mid, hi)
                               ELSE SqrtSearch(n, lo, mid - 1)
ISqrt(n) == SqrtSearch(n, 0, 46340)

\* Math.hypot / length (line 40)
Hypot(x, y) == ISqrt(x * x + y * y)

\* Faulty variant of normalize: no test of the length, the zero vector comes
\* back as a direction.
normalizeUnguarded(x, y) ==
    LET big == Max(Abs(x), Abs(y))
        k   == IF big = 0 THEN 1 ELSE Max(1, 30000 \div big)
        L   == Max(1, Hypot(x * k, y * k))
    IN  IF big = 0 THEN [x |-> Milli, y |-> 0]
        ELSE [x |-> TDiv(x * k * Milli, L), y |-> TDiv(y * k * Milli, L)]

\* normalize (lines 41-44): a unit vector in 1/1000, or the zero vector.  The
\* code tests L > 1e-6; on the lattice L is 0 or at least one unit.  Short
\* vectors are scaled up before the square root is taken, so that the
\* quotient keeps three digits.
normalize(x, y) ==
    LET big == Max(Abs(x), Abs(y))
        k   == IF big = 0 THEN 1 ELSE Max(1, 30000 \div big)
        L   == Hypot(x * k, y * k)
    IN  IF L > 0 THEN [x |-> TDiv(x * k * Milli, L), y |-> TDiv(y * k * Milli, L)]
                 ELSE [x |-> 0, y |-> 0]

\* smoothstep (lines 57-60), edge0 = 0: x and edge1 in the same unit, result
\* in 1/1000.
smoothstep(edge1, x) ==
    LET t == clamp(TDiv(x * Milli, edge1), 0, Milli)
    IN  TDiv(TDiv(t * t, Milli) * (3 * Milli - 2 * t), Milli)

\* smootherstep (lines 61-64), edge0 = 0.
smootherstep(edge1, x) ==
    LET t  == clamp(TDiv(x * Milli, edge1), 0, Milli)
        t3 == TDiv(TDiv(t * t, Milli) * t, Milli)
        inner == TDiv(t * (6 * t - 15 * Milli), Milli) + 10 * Milli
    IN  TDiv(t3 * inner, Milli)

\* Math.sin and Math.cos on milliradians, result in 1/1000 (Bhaskara's
\* rational approximation on a half period, error below 2/1000).
PiMilli == 3142
SinHalf(x) ==
    LET q == (x * (PiMilli - x)) \div 100
    IN  (16000 * q) \div ((5 * PiMilli * PiMilli - 400 * q) \div 100)
Sin(a) ==
    LET r == a % (2 * PiMilli)
    IN  IF r <= PiMilli THEN SinHalf(r) ELSE -SinHalf(r - PiMilli)
Cos(a) == Sin(a + PiMilli \div 2)

\* flowDir (lines 48-54): x, y in 1/Unit pixel, t in 1/1000 of the code's t.
flowDir(x, y, t) ==
    LET s1 == Sin(TDiv(9 * x + 7 * y, 10 * Unit) + TDiv(5 * t, 10000))
        s2 == Sin(TDiv(13 * x - 4 * y, 10 * Unit) + TDiv(8 * t, 10000))
        c1 == Cos(TDiv(6 * x + 9 * y, 10 * Unit) - TDiv(7 * t, 10000))
        angle == TDiv(s1 * 11 + s2 * 9 + c1 * 4, 10)
    IN  [x |-> Cos(angle), y |-> Sin(angle)]

(***************************************************************************)
(* Inputs of the environment.                                              *)
(***************************************************************************)
\* window.innerWidth / innerHeight offered by the browser, in pixels.
Viewports == {<<960, 540>>, <<1280, 720>>}
\* Pointer positions relative to the canvas (toLocal, lines 190-193; the
\* canvas is fixed at inset 0), in 1/Unit pixel.
PointerPositions == {[x |-> 100 * Unit, y |-> 100 * Unit],
                     [x |-> 500 * Unit, y |-> 300 * Unit]}
\* Milliseconds between a frame callback and the handler before it: a display
\* refresh, and a long pause (a backgrounded tab).
Delays == {16, 900}
\* Seeds of Math.random.
Seeds == {4242}

(***************************************************************************)
(* Math.random: a linear congruential generator over RngMod states; the    *)
(* value drawn from state s is s / RngMod, in [0, 1).                      *)
(***************************************************************************)
RngMod == 8192
NextRng(s) == (3125 * s + 49) % RngMod
\* Math.random() * k, truncated to the lattice.
RandTimes(s, k) == (s * k) \div RngMod

VARIABLES
    status,     \* "unmounted", "running", "failed" (the effect threw), "torndown"
    ctxOk,      \* whether canvas.getContext("2d") yields a context
    innerW,     \* window.innerWidth
    innerH,     \* window.innerHeight
    clock,      \* performance.now(), in ms
    rng,        \* state of Math.random
    listeners,  \* registered <<target, event, handler>> triples
    pending,    \* ids of the frame requests not yet run nor cancelled
    raf,        \* let raf (line 216)
    lastT,      \* let lastT (line 215)
    width,      \* let width (line 138)
    height,     \* let height (line 138)
    particles,  \* let particles (line 139); particles[i + 1] is the code's [i]
    cols,       \* SpatialGrid.cols
    rows,       \* SpatialGrid.rows
    cells,      \* SpatialGrid.cells; cells[k + 1] is the code's cells[k]
    waves,      \* const waves (line 141)
    mouse,      \* const mouse (lines 142-146)
    frames,     \* number of frame callbacks run
    events,     \* number of pointer and resize events delivered
    throws,     \* number of exceptions thrown out of the effect or a handler
    last,       \* the handler that ran last ("ignored": an event nobody heard)
    budget,     \* the frames and events one exploration runs at most
    stepInfo    \* what the last tick did: the calls it made, in order; the
                \* particles (ps) and waves (ws) stepPhysics started from and
                \* its dt; each particle's velocity at the position update
                \* (vs); particles clamped, particles given drift, waves
                \* pruned, whether the drag was applied
VARIABLES
    page,       \* the Page component: its state, its refs, the effect's
                \* closure, and what the user did (see PageInitial)
    pdf         \* the document as the PDF exports change it, and the exports
                \* under way (see PdfInitial)

vars == <<status, ctxOk, innerW, innerH, clock, rng, listeners, pending, raf,
          lastT, width, height, particles, cols, rows, cells, waves, mouse,
          frames, events, throws, last, budget, stepInfo, page, pdf>>

\* stepInfo before any stepPhysics has run.
NoStep ==
    [calls |-> <<>>, ps |-> <<>>, ws |-> <<>>, dt |-> 0, vs |-> <<>>,
     clamped |-> 0, drifted |-> 0, pruned |-> 0, dragged |-> FALSE]

(***************************************************************************)
(* Spatial grid (lines 67-110).                                            *)
(***************************************************************************)
cellSize == maxLinkDist * Unit

\* SpatialGrid.resize (lines 77-82), width and height in pixels.
GridCols(w) == Max(1, CeilDiv(w, maxLinkDist))
GridRows(h) == Max(1, CeilDiv(h, maxLinkDist))
EmptyCells(c, r) == [k \in 1..(c * r) |-> <<>>]

\* SpatialGrid.indexFor (lines 88-92): Math.floor is \div.
CellX(x, c) == clamp(x \div cellSize, 0, c - 1)
CellY(y, r) == clamp(y \div cellSize, 0, r - 1)
indexFor(x, y, c, r) == CellY(y, r) * c + CellX(x, c)

\* Faulty variant of RebuildCells: the loop runs one index past the end of
\* the array, and the extra index lands in the first bucket.
RebuildCellsPastEnd(ps, c, r) ==
    LET idx == [i \in 1..(Len(ps) + 1) |->
                   IF i <= Len(ps) THEN indexFor(ps[i].p.x, ps[i].p.y, c, r) ELSE 0]
        ids == [i \in 1..(Len(ps) + 1) |-> i - 1]
    IN  [k \in 1..(c * r) |->
            LET InBucket(j) == idx[j + 1] = k - 1
            IN  SelectSeq(ids, InBucket)]

\* grid.clear() followed by grid.insert(i, p.x, p.y) for i = 0 .. length-1
\* (lines 84-86, 94-96, 233-239): insert pushes i onto the bucket indexFor
\* gives, so each bucket holds, in increasing order, the indices whose
\* position indexFor maps to it.
RebuildCells(ps, c, r) ==
    LET idx == [i \in 1..Len(ps) |-> indexFor(ps[i].p.x, ps[i].p.y, c, r)]
        ids == [i \in 1..Len(ps) |-> i - 1]
    IN  [k \in 1..(c * r) |->
            LET InBucket(j) == idx[j + 1] = k - 1
            IN  SelectSeq(ids, InBucket)]

\* SpatialGrid.candidates (lines 99-109): the indices yielded, in order.
RECURSIVE Concat(_)
Concat(ss) == IF ss = <<>> THEN <<>> ELSE Head(ss) \o Concat(Tail(ss))
Offsets == <<-1, 0, 1>>

\* Faulty variant of candidates: the bucket of the centre cell is yielded a
\* second time after the block.
candidatesTwice(x, y, cs, c, r) ==
    LET cx == CellX(x, c)
        cy == CellY(y, r)
        Block(oy, ox) ==
            LET nx == cx + ox
                ny == cy + oy
            IN  IF nx < 0 \/ ny < 0 \/ nx >= c \/ ny >= r
                THEN <<>>
                ELSE cs[ny * c + nx + 1]
    IN  Concat([n \in 1..10 |->
                   IF n = 10 THEN Block(0, 0)
                   ELSE Block(Offsets[((n - 1) \div 3) + 1], Offsets[((n - 1) % 3) + 1])])

candidates(x, y, cs, c, r) ==
    LET cx == CellX(x, c)
        cy == CellY(y, r)
        Block(oy, ox) ==
            LET nx == cx + ox
                ny == cy + oy
            IN  IF nx < 0 \/ ny < 0 \/ nx >= c \/ ny >= r
                THEN <<>>
                ELSE cs[ny * c + nx + 1]
    IN  Concat([n \in 1..9 |->
                   Block(Offsets[((n - 1) \div 3) + 1], Offsets[((n - 1) % 3) + 1])])

(***************************************************************************)
(* makeParticle (lines 172-187).  s is the state of Math.random before the *)
(* call, which draws ten values; w and h are the engine's width and height *)
(* in pixels; now is performance.now().                                    *)
(***************************************************************************)
makeParticle(id, s, w, h, now) ==
    LET r1  == NextRng(s)
        r2  == NextRng(r1)
        r3  == NextRng(r2)
        r4  == NextRng(r3)
        r5  == NextRng(r4)
        r6  == NextRng(r5)
        r7  == NextRng(r6)
        r8  == NextRng(r7)
        r9  == NextRng(r8)
        px  == RandTimes(s, w * Unit)
        py  == RandTimes(r1, h * Unit)
        dir == flowDir(px + RandTimes(r2, 1000 * Unit),
                       py + RandTimes(r3, 1000 * Unit),
                       (now + RandTimes(r4, 1000)) * Milli)
        speed == TDiv(baseSpeed * Unit * (600 + RandTimes(r5, 800)), Milli)
    IN  [id    |-> id,
         p     |-> [x |-> px, y |-> py],
         v     |-> [x |-> TDiv(dir.x * speed, Milli), y |-> TDiv(dir.y * speed, Milli)],
         a     |-> [x |-> 0, y |-> 0],
         o     |-> [x |-> RandTimes(r6, 10000 * Unit), y |-> RandTimes(r7, 10000 * Unit)],
         phase |-> RandTimes(r8, 2 * PiMilli),
         freq  |-> 200 + RandTimes(r9, 600)]
\* The state of Math.random after n more draws: NextRng composed n times,
\* as the affine map s |-> (a * s + c) % RngMod.
RECURSIVE RngPower(_)
RngPower(n) ==
    IF n = 0 THEN [a |-> 1, c |-> 0]
    ELSE IF n % 2 = 0
         THEN LET f == RngPower(n \div 2)
              IN  [a |-> (f.a * f.a) % RngMod, c |-> (f.a * f.c + f.c) % RngMod]
         ELSE LET f == RngPower(n - 1)
              IN  [a |-> (3125 * f.a) % RngMod, c |-> (3125 * f.c + 49) % RngMod]
SkipRng(s, n) == LET f == RngPower(n) IN (f.a * s + f.c) % RngMod
\* makeParticle draws ten values.
DrawsPerParticle == 10

(***************************************************************************)
(* resize (lines 149-170).                                                 *)
(***************************************************************************)
\* lines 151-152
ViewportOf(inner) == Max(1, inner)
\* Faulty variant of targetCount: the count without its floor of minParticles.
targetCountNoFloor(w, h) ==
    (particleCountBase * w * h) \div (refWidth * refHeight)

\* lines 159-160: Math.floor(particleCountBase * scale) is exact in integers.
targetCount(w, h) ==
    Max(minParticles, (particleCountBase * w * h) \div (refWidth * refHeight))

\* The loops of lines 163 and 166: makeParticle(i) for i from the array's
\* length up to target - 1, each call starting where the one before left
\* Math.random.  Yields the array and the state of Math.random.
GrowParticles(ps, s, target, w, h, now) ==
    LET start == Len(ps)
        fresh == [k \in 1..(target - start) |->
                     makeParticle(start + k - 1,
                                  SkipRng(s, DrawsPerParticle * (k - 1)), w, h, now)]
    IN  [particles |-> ps \o fresh,
         rng |-> SkipRng(s, DrawsPerParticle * (target - start))]

\* Faulty variant of ResizeParticles: every resize rebuilds the whole array.
ResizeParticlesAfresh(ps, s, w, h, now) ==
    GrowParticles(<<>>, s, targetCount(w, h), w, h, now)

\* lines 161-169: the particle array after a resize to w x h.
ResizeParticles(ps, s, w, h, now) ==
    LET target == targetCount(w, h)
    IN  IF Len(ps) = 0 THEN GrowParticles(<<>>, s, target, w, h, now)
        ELSE IF Len(ps) < target THEN GrowParticles(ps, s, target, w, h, now)
        ELSE IF Len(ps) > target THEN [particles |-> SubSeq(ps, 1, target), rng |-> s]
        ELSE [particles |-> ps, rng |-> s]

(***************************************************************************)
(* stepPhysics (lines 231-343).  Positions of a particle are read and      *)
(* written only by its own iterations of the loops, so the force loop      *)
(* (242-291) and the integration loop (294-326) are composed per particle. *)
(***************************************************************************)
VAdd(u, w) == [x |-> u.x + w.x, y |-> u.y + w.y]
Scale(n, k) == [x |-> TDiv(n.x * k, Milli), y |-> TDiv(n.y * k, Milli)]
Zero == [x |-> 0, y |-> 0]

\* lines 245-248: flow steering.
FlowForce(q, now) ==
    Scale(flowDir(q.p.x + q.o.x, q.p.y + q.o.y, now + TDiv(q.phase * 37, 100)),
          flowStrength * Unit)

\* lines 250-258: personal wander, perpendicular to the velocity.
WanderForce(q, now) ==
    LET theta == Sin(TDiv(now * (500 + q.freq), Milli) + q.phase)
        h     == Hypot(q.v.x, q.v.y)
        vmag  == IF h = 0 THEN 1 ELSE h
        perp  == [x |-> TDiv(-q.v.y * Milli, vmag), y |-> TDiv(q.v.x * Milli, vmag)]
    IN  Scale(Scale(perp, theta), wanderStrength * Unit)

\* Faulty variant of MouseForce: the inside flag is not tested.
MouseForceAlways(q, m) ==
    LET dx == q.p.x - m.pos.x
        dy == q.p.y - m.pos.y
        d  == Hypot(dx, dy)
    IN  IF d < mouseAvoidRadius * Unit
        THEN LET falloff == Milli - smoothstep(mouseAvoidRadius * Unit, d)
                 force   == TDiv(TDiv(falloff * falloff, Milli)
                                   * mouseAvoidStrength * Unit, Milli)
             IN  Scale(normalize(dx, dy), force)
        ELSE Zero

\* lines 260-272: mouse avoidance.
MouseForce(q, m) ==
    IF ~m.inside THEN Zero
    ELSE LET dx == q.p.x - m.pos.x
             dy == q.p.y - m.pos.y
             d  == Hypot(dx, dy)
         IN  IF d < mouseAvoidRadius * Unit
             THEN LET falloff == Milli - smoothstep(mouseAvoidRadius * Unit, d)
                      force   == TDiv(TDiv(falloff * falloff, Milli)
                                        * mouseAvoidStrength * Unit, Milli)
                  IN  Scale(normalize(dx, dy), force)
             ELSE Zero

\* line 277 (and 331-332): the radius of a wave at time now, in 1/Unit pixel.
WaveRadius(wave, now) == TDiv((now - wave.t0) * waveSpeed * Unit, Milli)

\* Faulty variant of WaveForce: the band is d - r, not its absolute value.
WaveForceSigned(q, wave, now) ==
    LET r    == WaveRadius(wave, now)
        dx   == q.p.x - wave.origin.x
        dy   == q.p.y - wave.origin.y
        d    == Hypot(dx, dy)
        band == d - r
    IN  IF band < waveThickness * Unit
        THEN Scale(normalize(dx, dy),
                   TDiv(waveImpulse * Unit
                          * (Milli - smootherstep(waveThickness * Unit, band)), Milli))
        ELSE Zero

\* lines 276-289: the force of one wave.
WaveForce(q, wave, now) ==
    LET r    == WaveRadius(wave, now)
        dx   == q.p.x - wave.origin.x
        dy   == q.p.y - wave.origin.y
        d    == Hypot(dx, dy)
        band == Abs(d - r)
    IN  IF band < waveThickness * Unit
        THEN Scale(normalize(dx, dy),
                   TDiv(waveImpulse * Unit
                          * (Milli - smootherstep(waveThickness * Unit, band)), Milli))
        ELSE Zero

\* lines 275-290: the forces of all waves, summed.
RECURSIVE WavesForce(_, _, _)
WavesForce(q, ws, now) ==
    IF ws = <<>> THEN Zero
    ELSE VAdd(WaveForce(q, Head(ws), now), WavesForce(q, Tail(ws), now))

\* lines 237, 242-291: the acceleration accumulated for one particle.
Accel(q, ws, m, now) ==
    VAdd(VAdd(FlowForce(q, now), WanderForce(q, now)),
         VAdd(MouseForce(q, m), WavesForce(q, ws, now)))

\* lines 296-297: velocity after integration and damping; dt in ms.
Damped(v, a, dt) ==
    [x |-> TDiv((v.x + TDiv(a.x * dt, Milli)) * dampingMilli, Milli),
     y |-> TDiv((v.y + TDiv(a.y * dt, Milli)) * dampingMilli, Milli)]

\* Faulty variant of ClampSpeed: the speed is left as integrated.
ClampSpeedOff(v) == v

\* line 302: vmag > maxSpeed, compared exactly through the squares.
Speeding(v) == v.x * v.x + v.y * v.y > (maxSpeed * Unit) * (maxSpeed * Unit)

\* Math.hypot rounded up to the lattice.
HypotUp(x, y) ==
    LET r == Hypot(x, y) IN IF r * r = x * x + y * y THEN r ELSE r + 1

\* lines 300-307: clamp the speed to maxSpeed.  The scaled components
\* v * (maxSpeed / vmag) are rounded toward zero on the lattice.
ClampSpeed(v) ==
    LET vmag == HypotUp(v.x, v.y)
    IN  IF Speeding(v)
        THEN [x |-> TDiv(v.x * maxSpeed * Unit, vmag),
              y |-> TDiv(v.y * maxSpeed * Unit, vmag)]
        ELSE v

\* lines 309-316: minimum drift.
MinDrift(v, pos, now) ==
    LET vL == Hypot(v.x, v.y)
    IN  IF vL < minV * Unit
        THEN LET d == flowDir(TDiv(pos.x * 12, 10), TDiv(pos.y * 11, 10), now)
             IN  VAdd(v, Scale(d, minV * Unit - vL))
        ELSE v

\* Faulty variant of Wrap: only the lower edge wraps.
WrapLowerOnly(c, size) ==
    IF c < -wrapMargin * Unit THEN size * Unit + wrapMargin * Unit ELSE c

\* lines 321-325: soft wrap of one coordinate; size is width or height in
\* pixels.  The two tests run in sequence.
Wrap(c, size) ==
    LET c1 == IF c < -wrapMargin * Unit THEN size * Unit + wrapMargin * Unit ELSE c
    IN  IF c1 > size * Unit + wrapMargin * Unit THEN -wrapMargin * Unit ELSE c1

\* lines 318-325: position update and wrap.
Moved(pos, v, dt, w, h) ==
    [x |-> Wrap(pos.x + TDiv(v.x * dt, Milli), w),
     y |-> Wrap(pos.y + TDiv(v.y * dt, Milli), h)]

\* lines 237-325 for one particle: the particle after the loops, whether the
\* clamp of lines 302-306 acted and whether drift was injected (312-315).
StepTrace(q, ws, m, now, dt, w, h) ==
    LET a  == Accel(q, ws, m, now)
        v0 == Damped(q.v, a, dt)
        v1 == ClampSpeed(v0)
        v  == MinDrift(v1, q.p, now)
    IN  [q       |-> [q EXCEPT !.a = a, !.v = v, !.p = Moved(q.p, v, dt, w, h)],
         clamped |-> Speeding(v0),
         drifted |-> Hypot(v1.x, v1.y) < minV * Unit]
StepParticle(q, ws, m, now, dt, w, h) == StepTrace(q, ws, m, now, dt, w, h).q

\* The square of Math.hypot(width, height), in (1/Unit pixel)^2.
DiagSq(w, h) == (w * Unit) * (w * Unit) + (h * Unit) * (h * Unit)

\* line 333: r > Math.hypot(width, height) * 1.2, compared exactly through the
\* squares: r^2 > 1.44 * diag^2 = diag^2 + 11 * diag^2 / 25 (diag^2 is a
\* multiple of 25).
Expired(wave, now, w, h) ==
    LET r == WaveRadius(wave, now)
    IN  r > 0 /\ r * r > DiagSq(w, h) + 11 * (DiagSq(w, h) \div 25)

\* Faulty variant of PruneWaves: the loop stops before the first wave.
PruneWavesSkipFirst(ws, now, w, h) ==
    LET Keep(wave) == ~Expired(wave, now, w, h)
    IN  IF ws = <<>> THEN <<>> ELSE <<Head(ws)>> \o SelectSeq(Tail(ws), Keep)

\* lines 328-334: the loop runs from the last wave to the first, so a splice
\* never skips an entry: the waves kept are those not expired, in order.
PruneWaves(ws, now, w, h) ==
    LET Keep(wave) == ~Expired(wave, now, w, h)
    IN  SelectSeq(ws, Keep)

\* Faulty variant of Drag: the factor is applied twice.
DragTwice(q) ==
    [q EXCEPT !.v = [x |-> TDiv(TDiv(q.v.x * waveDragMilli, Milli) * waveDragMilli, Milli),
                     y |-> TDiv(TDiv(q.v.y * waveDragMilli, Milli) * waveDragMilli, Milli)]]

\* lines 339-340: the drag on one particle.
Drag(q) ==
    [q EXCEPT !.v = [x |-> TDiv(q.v.x * waveDragMilli, Milli),
                     y |-> TDiv(q.v.y * waveDragMilli, Milli)]]

\* line 219: dt, in ms.
FrameDt(now, prev) == clamp(now - prev, 0, maxDtMs)

(***************************************************************************)
(* The effect (lines 116-426): listeners, frame requests, handlers.        *)
(***************************************************************************)
\* lines 204-209: the listeners the effect adds.
Registered ==
    {<<"canvas", "pointermove", "onMove">>,
     <<"canvas", "pointerenter", "onEnter">>,
     <<"canvas", "pointerleave", "onLeave">>,
     <<"canvas", "pointerdown", "onDown">>,
     <<"window", "pointerup", "onUp">>,
     <<"window", "resize", "resize">>}

\* Faulty variant of Removed: the cleanup forgets the window's resize listener.
RemovedButResize ==
    {<<"canvas", "pointermove", "onMove">>,
     <<"canvas", "pointerenter", "onEnter">>,
     <<"canvas", "pointerleave", "onLeave">>,
     <<"canvas", "pointerdown", "onDown">>,
     <<"window", "pointerup", "onUp">>}

\* lines 419-424: the listeners the cleanup removes.
Removed ==
    {<<"window", "resize", "resize">>,
     <<"canvas", "pointermove", "onMove">>,
     <<"canvas", "pointerenter", "onEnter">>,
     <<"canvas", "pointerleave", "onLeave">>,
     <<"canvas", "pointerdown", "onDown">>,
     <<"window", "pointerup", "onUp">>}

\* line 418: the frame requests left after cancelAnimationFrame(raf).
CancelRaf(reqs, id) == reqs \ {id}

\* Faulty variant of StoredRaf: the id returned by requestAnimationFrame is
\* dropped, raf keeps its old value.
StoredRafStale(old, new) == old

\* line 228 (and 414): the id the code stores in raf, given the id that
\* requestAnimationFrame returned.
StoredRaf(old, new) == new

\* The browser calls the handlers registered for (target, event).
Listening(target, event, handler) == <<target, event, handler>> \in listeners

\* resize (lines 149-170) with the window at iw x ih.  Without a context,
\* ctx.setTransform (line 155) throws a TypeError after lines 151-154.
resize(iw, ih) ==
    /\ width' = ViewportOf(iw)
    /\ height' = ViewportOf(ih)
    /\ IF ctxOk
       THEN LET res == ResizeParticles(particles, rng, width', height', clock)
            IN  /\ cols' = GridCols(width')
                /\ rows' = GridRows(height')
                /\ cells' = EmptyCells(cols', rows')
                /\ particles' = res.particles
                /\ rng' = res.rng
                /\ throws' = throws
       ELSE /\ throws' = throws + 1
            /\ UNCHANGED <<cols, rows, cells, particles, rng>>

\* page.tsx lines 10-13: the Page component before its effect has run.
\* showGraceful and isNarrow are its state, prevShowGraceful and
\* prevIsNarrow its refs (prevIsNarrow is <<>> for null, else <<narrow>>);
\* listening tells whether update is registered for "resize", and seen is
\* the showGraceful its closure captured.  What the user did is recorded
\* beside them: setting is the user's own setting (off, flipped by each
\* click on the toggle button), before the visibility just before the
\* window last went narrow, crossing what the last event did to the width
\* ("narrowed", "widened", "none"), events the events processed.
PageInitial ==
    [showGraceful     |-> FALSE,
     isNarrow         |-> FALSE,
     prevShowGraceful |-> FALSE,
     prevIsNarrow     |-> <<>>,
     listening        |-> FALSE,
     seen             |-> FALSE,
     setting          |-> FALSE,
     before           |-> FALSE,
     crossing         |-> "none",
     events           |-> 0,
     last             |-> "init"]

\* DownloadPdf.ts: no export under way.  style tells whether the element
\* of id PDF_SAFE_STYLE_ID is in the document's head, classed holds the
\* exports whose target carries PDF_SAFE_CLASS, hosts the exports whose
\* off-screen host is in the body, capturing the exports awaiting
\* html2canvas; started counts the exports begun, saved those that saved
\* a file.
PdfInitial ==
    [style     |-> FALSE,
     classed   |-> {},
     hosts     |-> {},
     capturing |-> {},
     started   |-> 0,
     saved     |-> 0,
     last      |-> "init"]

Init ==
    /\ status = "unmounted"
    /\ ctxOk \in BOOLEAN
    /\ \E vp \in Viewports : innerW = vp[1] /\ innerH = vp[2]
    /\ clock = 0
    /\ rng \in Seeds
    /\ listeners = {}
    /\ pending = {}
    /\ raf = 0
    /\ lastT = 0
    /\ width = 0
    /\ height = 0
    /\ particles = <<>>
    /\ cols = 0
    /\ rows = 0
    /\ cells = <<>>
    /\ waves = <<>>
    /\ mouse = [pos |-> [x |-> 0, y |-> 0], inside |-> FALSE, down |-> FALSE]
    /\ frames = 0
    /\ events = 0
    /\ throws = 0
    /\ last = "init"
    /\ budget = [frames |-> MaxFrames, events |-> MaxEvents]
    /\ stepInfo = NoStep
    /\ page = PageInitial
    /\ pdf = PdfInitial

\* The effect body (lines 116-415).  With a context it returns the cleanup;
\* without one the initial resize() of line 212 throws, after the listeners
\* of lines 204-209 were added and before any frame is requested.
Mount ==
    /\ status = "unmounted"
    /\ listeners' = Registered
    /\ resize(innerW, innerH)
    /\ IF ctxOk
       THEN /\ status' = "running"
            /\ lastT' = clock
            /\ raf' = StoredRaf(raf, frames + 1)
            /\ pending' = {frames + 1}
       ELSE /\ status' = "failed"
            /\ UNCHANGED <<lastT, raf, pending>>
    /\ last' = "mount"
    /\ UNCHANGED <<ctxOk, innerW, innerH, clock, waves, mouse, frames, events,
                   budget, stepInfo, page, pdf>>

\* The cleanup the effect returned (lines 417-425).
Cleanup ==
    /\ status = "running"
    /\ status' = "torndown"
    /\ pending' = CancelRaf(pending, raf)
    /\ listeners' = listeners \ Removed
    /\ last' = "cleanup"
    /\ UNCHANGED <<ctxOk, innerW, innerH, clock, rng, raf, lastT, width, height,
                   particles, cols, rows, cells, waves, mouse, frames, events,
                   throws, budget, stepInfo, page, pdf>>

\* What every pointer event leaves alone.
PointerFrame ==
    UNCHANGED <<status, ctxOk, innerW, innerH, clock, rng, listeners, pending,
                raf, lastT, width, height, particles, cols, rows, cells, frames,
                throws, budget, stepInfo, page, pdf>>

\* A pointer or resize event is delivered once the effect has run.
Deliverable == status # "unmounted" /\ events < budget.events

\* pointermove on the canvas: onMove (line 194).
PointerMove(pos) ==
    /\ Deliverable
    /\ events' = events + 1
    /\ IF Listening("canvas", "pointermove", "onMove")
       THEN mouse' = [mouse EXCEPT !.pos = pos, !.inside = TRUE] /\ last' = "move"
       ELSE UNCHANGED mouse /\ last' = "ignored"
    /\ UNCHANGED waves
    /\ PointerFrame

\* pointerenter on the canvas: onEnter (line 195).
PointerEnter ==
    /\ Deliverable
    /\ events' = events + 1
    /\ IF Listening("canvas", "pointerenter", "onEnter")
       THEN mouse' = [mouse EXCEPT !.inside = TRUE] /\ last' = "enter"
       ELSE UNCHANGED mouse /\ last' = "ignored"
    /\ UNCHANGED waves
    /\ PointerFrame

\* pointerleave on the canvas: onLeave (line 196).
PointerLeave ==
    /\ Deliverable
    /\ events' = events + 1
    /\ IF Listening("canvas", "pointerleave", "onLeave")
       THEN mouse' = [mouse EXCEPT !.inside = FALSE] /\ last' = "leave"
       ELSE UNCHANGED mouse /\ last' = "ignored"
    /\ UNCHANGED waves
    /\ PointerFrame

\* Faulty variant of pushWave: the push is put off, and the registry the next
\* frame reads is the one before the event.
pushWaveDeferred(ws, pos, now) == ws

\* Faulty variant of pushWave: the waves share one origin object, which the
\* handler overwrites.
pushWaveShared(ws, pos, now) ==
    [k \in 1..(Len(ws) + 1) |->
        IF k <= Len(ws) THEN [ws[k] EXCEPT !.origin = pos]
                        ELSE [origin |-> pos, t0 |-> now]]

\* line 200: waves.push({ origin: { ...mouse.pos }, t0: performance.now() }),
\* the origin a copy of the position just stored.
pushWave(ws, pos, now) == Append(ws, [origin |-> pos, t0 |-> now])

\* pointerdown on the canvas: onDown (lines 197-201).
PointerDown(pos) ==
    /\ Deliverable
    /\ events' = events + 1
    /\ IF Listening("canvas", "pointerdown", "onDown")
       THEN /\ mouse' = [mouse EXCEPT !.down = TRUE, !.pos = pos]
            /\ waves' = pushWave(waves, pos, clock)
            /\ last' = "down"
       ELSE UNCHANGED <<mouse, waves>> /\ last' = "ignored"
    /\ PointerFrame

\* pointerup on the window: onUp (line 202).
PointerUp ==
    /\ Deliverable
    /\ events' = events + 1
    /\ IF Listening("window", "pointerup", "onUp")
       THEN mouse' = [mouse EXCEPT !.down = FALSE] /\ last' = "up"
       ELSE UNCHANGED mouse /\ last' = "ignored"
    /\ UNCHANGED waves
    /\ PointerFrame

\* "resize" is dispatched on the window, whose size is now w x h (the same
\* size again when only the zoom or the device orientation settled).
WindowResize(w, h) ==
    /\ Deliverable
    /\ Listening("window", "resize", "resize") /\ ~ctxOk => throws < MaxThrows
    /\ events' = events + 1
    /\ innerW' = w
    /\ innerH' = h
    /\ IF Listening("window", "resize", "resize")
       THEN resize(w, h) /\ last' = "resize"
       ELSE /\ UNCHANGED <<width, height, cols, rows, cells, particles, rng, throws>>
            /\ last' = "ignored"
    /\ UNCHANGED <<status, ctxOk, clock, listeners, pending, raf, lastT, waves,
                   mouse, frames, budget, stepInfo, page, pdf>>

\* lines 337: whether the drag loop runs, given the waves left by the pruning.
DragApplies(kept) == Len(kept) > 0

\* Faulty variant of Requested: the request that fired stays pending.
RequestedTwice(reqs, id, new) == reqs \cup {new}

\* lines 217 and 228: the browser takes the request id off its list to call
\* tick, and tick's last statement adds one request.
Requested(reqs, id, new) == (reqs \ {id}) \cup {new}

\* lines 223 and 226: the calls tick makes, in order, each returning before
\* the next statement runs.
TickCalls == <<"stepPhysics", "draw">>

\* The loops of lines 242-326 over the whole array.
StepTraces(ps, ws, m, now, dt, w, h) ==
    LET Every(t) == TRUE
    IN  SelectSeq([i \in 1..Len(ps) |-> StepTrace(ps[i], ws, m, now, dt, w, h)], Every)

\* tick (lines 217-229), run by the browser for the pending request id, adv ms
\* after the handler before it: stepPhysics (lines 231-343), draw, and the next
\* request.  draw (lines 345-411) writes to the canvas only; what it reads is
\* the state this action leaves.
Tick(id, adv) ==
    /\ id \in pending
    /\ frames < budget.frames
    /\ clock' = clock + adv
    /\ lastT' = clock'
    /\ cells' = RebuildCells(particles, cols, rows)
    /\ waves' = PruneWaves(waves, clock', width, height)
    /\ \E tr \in {StepTraces(particles, waves, mouse, clock',
                             FrameDt(clock', lastT), width, height)} :
           /\ particles' = [i \in 1..Len(particles) |->
                               IF DragApplies(waves') THEN Drag(tr[i].q) ELSE tr[i].q]
           /\ stepInfo' =
                 [calls   |-> TickCalls,
                  ps      |-> particles,
                  ws      |-> waves,
                  dt      |-> FrameDt(clock', lastT),
                  vs      |-> [i \in 1..Len(particles) |-> tr[i].q.v],
                  clamped |-> Cardinality({i \in 1..Len(particles) : tr[i].clamped}),
                  drifted |-> Cardinality({i \in 1..Len(particles) : tr[i].drifted}),
                  pruned  |-> Len(waves) - Len(waves'),
                  dragged |-> DragApplies(waves')]
    /\ frames' = frames + 1
    /\ raf' = StoredRaf(raf, frames' + 1)
    /\ pending' = Requested(pending, id, frames' + 1)
    /\ last' = "tick"
    /\ UNCHANGED <<status, ctxOk, innerW, innerH, rng, listeners, width, height,
                   cols, rows, mouse, events, throws, budget, page, pdf>>

Next ==
    \/ Mount
    \/ Cleanup
    \/ \E pos \in PointerPositions : PointerMove(pos)
    \/ PointerEnter
    \/ PointerLeave
    \/ \E pos \in PointerPositions : PointerDown(pos)
    \/ PointerUp
    \/ \E vp \in Viewports : WindowResize(vp[1], vp[2])
    \/ \E id \in pending, adv \in Delays : Tick(id, adv)

Spec == Init /\ [][Next]_vars

(***************************************************************************)
(* draw (lines 345-411): the neighbour buffer and the edges of particle    *)
(* index i (from 0), computed from the state a tick leaves.                *)
(***************************************************************************)
\* lines 361-363: d2 between the particles of indices i and j.
LinkD2(ps, i, j) ==
    LET dx == ps[j + 1].p.x - ps[i + 1].p.x
        dy == ps[j + 1].p.y - ps[i + 1].p.y
    IN  dx * dx + dy * dy

\* Array.prototype.sort with (u, v) => u.d2 - v.d2: stable, ascending in d2.
RECURSIVE InsertByD2(_, _)
InsertByD2(sorted, e) ==
    IF sorted = <<>> THEN <<e>>
    ELSE IF sorted[Len(sorted)].d2 <= e.d2 THEN Append(sorted, e)
    ELSE Append(InsertByD2(SubSeq(sorted, 1, Len(sorted) - 1), e), sorted[Len(sorted)])
RECURSIVE SortByD2(_)
SortByD2(buf) ==
    IF buf = <<>> THEN <<>>
    ELSE InsertByD2(SortByD2(SubSeq(buf, 1, Len(buf) - 1)), buf[Len(buf)])

\* Faulty variant of keepNearest: the buffer is not sorted again after a
\* replacement, so its last entry stops being its farthest.
keepNearestUnsorted(buf, e) ==
    IF Len(buf) < maxNeighbors
    THEN LET grown == Append(buf, e)
         IN  IF Len(grown) = maxNeighbors THEN SortByD2(grown) ELSE grown
    ELSE IF e.d2 < buf[Len(buf)].d2
    THEN [buf EXCEPT ![Len(buf)] = e]
    ELSE buf

\* lines 365-372: one candidate within the cutoff meets the buffer.
keepNearest(buf, e) ==
    IF Len(buf) < maxNeighbors
    THEN LET grown == Append(buf, e)
         IN  IF Len(grown) = maxNeighbors THEN SortByD2(grown) ELSE grown
    ELSE IF e.d2 < buf[Len(buf)].d2
    THEN SortByD2([buf EXCEPT ![Len(buf)] = e])
    ELSE buf

\* lines 357-373: the buffer after the candidates cand were scanned in order.
RECURSIVE scanCandidates(_, _, _, _)
scanCandidates(ps, i, cand, buf) ==
    IF cand = <<>> THEN buf
    ELSE LET j  == Head(cand)
             d2 == LinkD2(ps, i, j)
         IN  IF j = i \/ d2 > cellSize * cellSize
             THEN scanCandidates(ps, i, Tail(cand), buf)
             ELSE scanCandidates(ps, i, Tail(cand), keepNearest(buf, [j |-> j, d2 |-> d2]))

\* lines 354-373: the buffer draw builds for particle index i.
nearest(i) ==
    scanCandidates(particles, i,
                   candidates(particles[i + 1].p.x, particles[i + 1].p.y, cells, cols, rows),
                   <<>>)

\* lines 376-386: the edges draw strokes from particle index i, in order.
edgesFrom(i) ==
    LET buf == nearest(i) IN [k \in 1..Len(buf) |-> <<i, buf[k].j>>]

(***************************************************************************)
(* A second specification for the claims about one physics step.  The      *)
(* engine is running in a 960 x 540 viewport (80 particles); its array     *)
(* holds one probe per direction and speed, every speed within the cap,    *)
(* all placed at one anchor: on the pointer, inside the avoidance radius,  *)
(* near the outer edge of the band of a wave aged one short delay, on the  *)
(* ring of a wave aged one long delay, and in the wrap margins.            *)
(* Waves (all spawned at time 0 at the first pointer position) and the     *)
(* pointer state are drawn too.  Frames then run as in Spec.               *)
(***************************************************************************)
MaxProbeWaves == 3
ProbeDirs ==
    <<[x |-> 1000, y |-> 0], [x |-> 600, y |-> 800], [x |-> 0, y |-> 1000],
      [x |-> -800, y |-> 600], [x |-> -1000, y |-> 0], [x |-> -600, y |-> -800],
      [x |-> 0, y |-> -1000], [x |-> 800, y |-> -600]>>
\* In pixels per second.
ProbeSpeeds == <<0, 5, 19, 20, 40, 56, 100, 126, 139, 140>>
ProbeOrigin == [x |-> 100 * Unit, y |-> 100 * Unit]
ProbeAnchors ==
    {ProbeOrigin,
     [x |-> 150 * Unit, y |-> 100 * Unit],
     [x |-> 2008, y |-> 100 * Unit],
     [x |-> 820 * Unit, y |-> 100 * Unit],
     [x |-> -10 * Unit, y |-> -10 * Unit],
     [x |-> 965 * Unit, y |-> 545 * Unit]}

\* Probe number i (from 0), placed at the anchor.
Probe(i, at) ==
    [id    |-> i,
     p     |-> at,
     v     |-> Scale(ProbeDirs[(i % 8) + 1], ProbeSpeeds[(i \div 8) + 1] * Unit),
     a     |-> Zero,
     o     |-> [x |-> (i * 1237) % (10000 * Unit), y |-> (i * 7919) % (10000 * Unit)],
     phase |-> (i * 79) % (2 * PiMilli),
     freq  |-> 200 + ((i * 37) % 600)]

InitProbe ==
    /\ status = "running"
    /\ ctxOk = TRUE
    /\ innerW = 960
    /\ innerH = 540
    /\ clock = 0
    /\ rng \in Seeds
    /\ listeners = Registered
    /\ pending = {1}
    /\ raf = 1
    /\ lastT = 0
    /\ width = 960
    /\ height = 540
    /\ \E at \in ProbeAnchors :
          particles = [i \in 1..targetCount(960, 540) |-> Probe(i - 1, at)]
    /\ cols = GridCols(960)
    /\ rows = GridRows(540)
    /\ cells = EmptyCells(cols, rows)
    /\ \E k \in {0, 1, MaxProbeWaves} :
          waves = [n \in 1..k |-> [origin |-> ProbeOrigin, t0 |-> 0]]
    /\ \E inside \in BOOLEAN :
          mouse = [pos |-> ProbeOrigin, inside |-> inside, down |-> FALSE]
    /\ frames = 0
    /\ events = 0
    /\ throws = 0
    /\ last = "init"
    /\ budget = [frames |-> MaxFrames, events |-> MaxEvents]
    /\ stepInfo = NoStep
    /\ page = PageInitial
    /\ pdf = PdfInitial

NextProbe ==
    \/ \E id \in pending, adv \in Delays : Tick(id, adv)
    \/ \E vp \in Viewports : WindowResize(vp[1], vp[2])

SpecProbe == InitProbe /\ [][NextProbe]_vars

(***************************************************************************)
(* A third specification for the claims about the handlers.  The engine    *)
(* has just been mounted in a 960 x 540 viewport; events of every kind     *)
(* follow each other, and one frame runs somewhere among them.             *)
(***************************************************************************)
MaxPointerEvents == 3

InitPointer ==
    /\ status = "running"
    /\ ctxOk = TRUE
    /\ innerW = 960
    /\ innerH = 540
    /\ clock = 0
    /\ \E seed \in Seeds :
          /\ particles = ResizeParticles(<<>>, seed, 960, 540, 0).particles
          /\ rng = ResizeParticles(<<>>, seed, 960, 540, 0).rng
    /\ listeners = Registered
    /\ pending = {1}
    /\ raf = 1
    /\ lastT = 0
    /\ width = 960
    /\ height = 540
    /\ cols = GridCols(960)
    /\ rows = GridRows(540)
    /\ cells = EmptyCells(cols, rows)
    /\ waves = <<>>
    /\ mouse = [pos |-> [x |-> 0, y |-> 0], inside |-> FALSE, down |-> FALSE]
    /\ frames = 0
    /\ events = 0
    /\ throws = 0
    /\ last = "mount"
    /\ budget = [frames |-> 1, events |-> MaxPointerEvents]
    /\ stepInfo = NoStep
    /\ page = PageInitial
    /\ pdf = PdfInitial

NextPointer ==
    \/ \E pos \in PointerPositions : PointerMove(pos)
    \/ PointerEnter
    \/ PointerLeave
    \/ \E pos \in PointerPositions : PointerDown(pos)
    \/ PointerUp
    \/ \E vp \in Viewports : WindowResize(vp[1], vp[2])
    \/ \E id \in pending, adv \in Delays : Tick(id, adv)

SpecPointer == InitPointer /\ [][NextPointer]_vars

(***************************************************************************)
(* The page (src/src/app/page.tsx) and the PDF export                      *)
(* (src/src/app/utilities/DownloadPdf.ts).  The page mounts the engine     *)
(* while showGraceful is true; the engine's own run is the subject of the  *)
(* specifications above and stays as it is here.  An event is processed    *)
(* whole: its handler, the render its setState calls ask for, and the      *)
(* effect that render re-runs.                                             *)
(***************************************************************************)
\* page.tsx line 17
NarrowBelow == 920
\* Window widths on both sides of the threshold.
PageWidths == {600, 919, 920, 1280}

\* Faulty variant of update: going narrow does not save the visibility.
updateUnsaved(pg, iw) ==
    LET narrow  == iw < NarrowBelow
        first   == pg.prevIsNarrow = <<>>
        crossed == ~first /\ pg.prevIsNarrow # <<narrow>>
    IN  [pg EXCEPT !.isNarrow = narrow,
                   !.showGraceful = IF narrow /\ (first \/ crossed) THEN TRUE
                                    ELSE IF ~narrow /\ crossed THEN pg.prevShowGraceful
                                    ELSE @,
                   !.prevIsNarrow = <<narrow>>]

\* page.tsx lines 16-34: update, called with window.innerWidth = iw; the
\* showGraceful it reads is the one its closure captured (pg.seen).  Each
\* setState it calls is shown in the state the next render has.
update(pg, iw) ==
    LET narrow  == iw < NarrowBelow
        first   == pg.prevIsNarrow = <<>>
        crossed == ~first /\ pg.prevIsNarrow # <<narrow>>
    IN  [pg EXCEPT !.isNarrow = narrow,
                   !.prevShowGraceful = IF narrow /\ (first \/ crossed) THEN pg.seen ELSE @,
                   !.showGraceful = IF narrow /\ (first \/ crossed) THEN TRUE
                                    ELSE IF ~narrow /\ crossed THEN pg.prevShowGraceful
                                    ELSE @,
                   !.prevIsNarrow = <<narrow>>]

\* page.tsx lines 15-38: the effect of a render: the cleanup of the effect
\* before it, then update() with this render's showGraceful, and update
\* registered for "resize".
pageEffect(pg, iw) ==
    update([pg EXCEPT !.seen = pg.showGraceful, !.listening = TRUE], iw)

\* page.tsx line 38: the effect runs again after every render in which
\* showGraceful differs from the render before (shown), until it does not.
RECURSIVE rerender(_, _, _)
rerender(pg, shown, iw) ==
    IF pg.showGraceful = shown THEN pg
    ELSE rerender(pageEffect(pg, iw), pg.showGraceful, iw)

\* What the page's events leave alone.
EngineFrame ==
    UNCHANGED <<status, ctxOk, innerH, clock, rng, listeners, pending, raf, lastT,
                width, height, particles, cols, rows, cells, waves, mouse, frames,
                events, throws, last, budget, stepInfo>>

\* The first render and its effect (lines 10-38).
PageMount ==
    /\ ~page.listening
    /\ \E pg \in {pageEffect(page, innerW)} :
          page' = [rerender(pg, page.showGraceful, innerW) EXCEPT
                      !.before = page.showGraceful,
                      !.crossing = IF innerW < NarrowBelow THEN "narrowed" ELSE "none",
                      !.last = "mount"]
    /\ UNCHANGED <<innerW, pdf>>
    /\ EngineFrame

\* "resize" on the window, now iw wide: the registered update (line 36),
\* then the renders and effects it causes.
PageResize(iw) ==
    /\ page.listening
    /\ page.events < MaxPageEvents
    /\ innerW' = iw
    /\ \E pg \in {update(page, iw)} :
          page' = [rerender(pg, page.showGraceful, iw) EXCEPT
                      !.before = IF iw < NarrowBelow /\ ~(innerW < NarrowBelow)
                                 THEN page.showGraceful ELSE @,
                      !.crossing = IF (iw < NarrowBelow) = (innerW < NarrowBelow) THEN "none"
                                   ELSE IF iw < NarrowBelow THEN "narrowed"
                                   ELSE "widened",
                      !.events = @ + 1,
                      !.last = "resize"]
    /\ UNCHANGED pdf
    /\ EngineFrame

\* A click on the toggle button (lines 47-53), which exists while isNarrow
\* is false: setShowGraceful(!showGraceful), then the render and its effect.
PageToggle ==
    /\ page.listening
    /\ ~page.isNarrow
    /\ page.events < MaxPageEvents
    /\ \E pg \in {[page EXCEPT !.showGraceful = ~page.showGraceful]} :
          page' = [rerender(pg, page.showGraceful, innerW) EXCEPT
                      !.setting = ~page.setting,
                      !.crossing = "none",
                      !.events = @ + 1,
                      !.last = "toggle"]
    /\ UNCHANGED <<innerW, pdf>>
    /\ EngineFrame

\* DownloadPdf.ts lines 104-131: applyPdfSafeStyles on the target of export e.
applyPdfSafeStyles(d, e) ==
    [d EXCEPT !.classed = @ \cup {e}, !.style = TRUE]

\* DownloadPdf.ts lines 133-137: removePdfSafeStyles on the target of export
\* e: the class leaves the target, and the style element, if the document
\* has one, leaves the document.
removePdfSafeStyles(d, e) ==
    [d EXCEPT !.classed = @ \ {e}, !.style = FALSE]

\* A click on the Download PDF button (page.tsx lines 63-66), which exists
\* while isNarrow is false: downloadHardcodedResumePdf up to its await
\* (DownloadPdf.ts lines 157-284), that is downloadElementAsPdf up to the
\* await of html2canvas (lines 35-53).
ExportStart ==
    /\ page.listening
    /\ ~page.isNarrow
    /\ pdf.started < MaxExports
    /\ \E e \in {pdf.started + 1} :
          pdf' = [applyPdfSafeStyles([pdf EXCEPT !.hosts = @ \cup {e}], e) EXCEPT
                     !.capturing = @ \cup {e},
                     !.started = e,
                     !.last = "start"]
    /\ UNCHANGED <<innerW, page>>
    /\ EngineFrame

\* html2canvas settles for export e: the file is saved if it resolved
\* (DownloadPdf.ts lines 61-74), and the finally blocks run either way
\* (lines 75-88 and 285-287).
ExportFinish(e, resolved) ==
    /\ e \in pdf.capturing
    /\ pdf' = [removePdfSafeStyles(pdf, e) EXCEPT
                  !.capturing = @ \ {e},
                  !.hosts = @ \ {e},
                  !.saved = IF resolved THEN @ + 1 ELSE @,
                  !.last = IF resolved THEN "saved" ELSE "failed"]
    /\ UNCHANGED <<innerW, page>>
    /\ EngineFrame

\* The page before its first effect, the engine not mounted.
InitPage ==
    /\ status = "unmounted"
    /\ ctxOk = TRUE
    /\ innerW \in PageWidths
    /\ innerH = 540
    /\ clock = 0
    /\ rng \in Seeds
    /\ listeners = {}
    /\ pending = {}
    /\ raf = 0
    /\ lastT = 0
    /\ width = 0
    /\ height = 0
    /\ particles = <<>>
    /\ cols = 0
    /\ rows = 0
    /\ cells = <<>>
    /\ waves = <<>>
    /\ mouse = [pos |-> [x |-> 0, y |-> 0], inside |-> FALSE, down |-> FALSE]
    /\ frames = 0
    /\ events = 0
    /\ throws = 0
    /\ last = "init"
    /\ budget = [frames |-> 0, events |-> 0]
    /\ stepInfo = NoStep
    /\ page = PageInitial
    /\ pdf = PdfInitial

NextPage ==
    \/ PageMount
    \/ \E iw \in PageWidths : PageResize(iw)
    \/ PageToggle
    \/ ExportStart
    \/ \E e \in pdf.capturing, resolved \in BOOLEAN : ExportFinish(e, resolved)

SpecPage == InitPage /\ [][NextPage]_vars

(***************************************************************************)
(* Properties of the effect's life cycle.                                  *)
(***************************************************************************)
\* What an engine callback can change: the simulation and its inputs.
engineState == <<particles, cells, cols, rows, waves, mouse, width, height, rng, lastT>>

\* C1: after teardown has run no further physics step or render pass is
\* executed.  While the engine runs, the one pending frame request is the
\* one whose id raf holds, so the cancel in the cleanup leaves none; from
\* then on no step counts a frame or touches the particles or the grid.
C1_NoFrameAfterTeardown ==
    [][ /\ (status = "running" => pending = {raf})
        /\ (status' = "torndown" => pending' = {})
        /\ (status = "torndown" =>
               /\ last' # "tick"
               /\ frames' = frames
               /\ particles' = particles
               /\ cells' = cells) ]_vars

\* A torn-down engine that had run a frame, and then saw an event.
C1_Witness ==
    /\ status = "torndown"
    /\ frames >= 1
    /\ events >= 1
    /\ last = "ignored"
    /\ pending = {}

\* C2: teardown unregisters every listener added at mount, each with the
\* handler it was added with, so no pointer or resize event changes the
\* engine's state after teardown.
C2_TeardownUnregisters ==
    [][ /\ (status = "running" => listeners = Registered)
        /\ (status' = "torndown" => listeners' = {})
        /\ (status = "torndown" => UNCHANGED engineState) ]_vars

\* An event delivered after the teardown of an engine that held particles:
\* no handler answered it.
C2_Witness ==
    /\ status = "torndown"
    /\ listeners = {}
    /\ Len(particles) >= minParticles
    /\ events >= 1
    /\ last = "ignored"

\* C3: when the canvas yields no 2D context the engine declines to start:
\* no frame is ever scheduled, the effect's body throws at most once (no
\* listener is left behind that throws again on a later event), and the
\* handlers it registered change nothing.
C3_DeclinesToStart ==
    ~ctxOk =>
        /\ pending = {}
        /\ frames = 0
        /\ throws <= 1
        /\ (status = "failed" => listeners = {})
        /\ waves = <<>>

(***************************************************************************)
(* Properties of the physics step and of resize.                           *)
(***************************************************************************)
\* C4: every particle's speed is at most maxSpeed at every observable
\* point: after creation, after every physics step (clamp, minimum drift
\* and wave drag included) and after any resize.
C4_SpeedBounded ==
    \A i \in 1..Len(particles) :
        particles[i].v.x * particles[i].v.x + particles[i].v.y * particles[i].v.y
            <= (maxSpeed * Unit) * (maxSpeed * Unit)

\* A step in which the clamp, the minimum drift and the wave drag all acted.
C4_Witness ==
    /\ last = "tick"
    /\ stepInfo.clamped > 0
    /\ stepInfo.drifted > 0
    /\ stepInfo.dragged

\* Every particle lies within the wrap margin of a w x h viewport.
Within(ps, w, h) ==
    \A i \in 1..Len(ps) :
        /\ ps[i].p.x >= -wrapMargin * Unit
        /\ ps[i].p.x <= (w + wrapMargin) * Unit
        /\ ps[i].p.y >= -wrapMargin * Unit
        /\ ps[i].p.y <= (h + wrapMargin) * Unit

\* C5: every particle's position lies within [-10, width + 10] x
\* [-10, height + 10] at every observable point, immediately after a resize
\* that shrinks the viewport included.
C5_AlwaysWithin == Within(particles, width, height)

\* C5, amended: the positions lie within the margin of the current viewport
\* after every physics step, and stay there over every step of the engine
\* that does not shrink the viewport (creation at mount or by a growing
\* resize included); particles retained by a shrinking resize may lie
\* outside until the next physics step.
C5_WithinAfterStep ==
    [][ /\ (last' = "tick" => Within(particles', width', height'))
        /\ (Within(particles, width, height) /\ width' >= width /\ height' >= height
               => Within(particles', width', height')) ]_vars

\* A physics step that brought back a particle left outside by a shrinking
\* resize: it now sits on the left margin.
C5_Witness ==
    /\ last = "tick"
    /\ events >= 1
    /\ Len(particles) = minParticles
    /\ \E i \in 1..Len(particles) : particles[i].p.x = -wrapMargin * Unit
    /\ Within(particles, width, height)

(***************************************************************************)
(* Properties of the spatial grid as the renderer reads it: the state      *)
(* after a tick is the state draw() runs in (lines 225-226).               *)
(***************************************************************************)
\* The indices candidates yields for particle i's current position.
Yielded(i) ==
    LET c == candidates(particles[i].p.x, particles[i].p.y, cells, cols, rows)
    IN  {c[k] : k \in 1..Len(c)}

\* Particles i and j lie within the link distance of each other.
Linkable(i, j) ==
    LET dx == particles[i].p.x - particles[j].p.x
        dy == particles[i].p.y - particles[j].p.y
    IN  dx * dx + dy * dy <= cellSize * cellSize

\* C6: when the renderer calls candidates(x, y) with a particle's current
\* position, every inserted particle within the link distance of (x, y) is
\* among the indices yielded, particles moved or wrapped since the previous
\* frame included.
C6_NoFalseNegatives ==
    last = "tick" =>
        \A i \in 1..Len(particles) :
            \E near \in {Yielded(i)} :
                \A j \in 1..Len(particles) : Linkable(i, j) => (j - 1) \in near

\* The buckets that hold index n.
BucketsOf(n) ==
    {k \in 1..Len(cells) : \E m \in 1..Len(cells[k]) : cells[k][m] = n}

\* C7: at every point of a frame where the grid is read, through the
\* renderer's edge pass, every particle index is in exactly one bucket, the
\* bucket of the particle's current position clamped to the grid.
C7_BucketOfCurrentPosition ==
    last = "tick" =>
        \A i \in 1..Len(particles) :
            BucketsOf(i - 1) =
                {indexFor(particles[i].p.x, particles[i].p.y, cols, rows) + 1}

(***************************************************************************)
(* Properties of wave pruning and of resize.                               *)
(***************************************************************************)
\* Radius r against the viewport diagonal: r > 1.2 * diag and r < diag, on
\* the squares (1.44 * d = d + 11 * d / 25, d a multiple of 25).
BeyondPrune(r, w, h) ==
    r > 0 /\ r * r > DiagSq(w, h) + 11 * (DiagSq(w, h) \div 25)
InsideDiag(r, w, h) == r <= 0 \/ r * r < DiagSq(w, h)

\* C8: a wave leaves the registry at the first physics step at which its
\* radius exceeds 1.2 times the viewport diagonal, is never removed while
\* its radius is below the diagonal, and its radius never decreases from
\* one physics step to the next.
C8_WavePruning ==
    [][ last' = "tick" =>
          \A k \in 1..Len(waves) :
              LET r == WaveRadius(waves[k], clock')
                  kept == \E m \in 1..Len(waves') : waves'[m] = waves[k]
              IN  /\ BeyondPrune(r, width, height) => ~kept
                  /\ InsideDiag(r, width, height) => kept
                  /\ r >= WaveRadius(waves[k], lastT) ]_vars

\* A physics step that removed the only wave, one that had outgrown the
\* viewport.
C8_Witness ==
    /\ last = "tick"
    /\ stepInfo.pruned > 0
    /\ waves = <<>>
    /\ frames >= 2

\* C9: a resize that takes the particle count from N to M leaves the first
\* min(N, M) particles as they were (position, velocity and the values fixed
\* at creation), appends exactly M - N particles when M > N, truncates to
\* the first M when M < N, and changes nothing when M = N.
C9_ResizeRetains ==
    [][ last' = "resize" =>
          LET N == Len(particles)
              M == Len(particles')
          IN  /\ \A i \in 1..Min(N, M) : particles'[i] = particles[i]
              /\ (M < N => particles' = SubSeq(particles, 1, M))
              /\ (M = N => particles' = particles)
              /\ (M > N => \A i \in (N + 1)..M : particles'[i].id = i - 1) ]_vars

\* After a frame, a shrinking resize kept the first particles where they
\* were: one of them is still beyond the new right margin.
C9_Witness ==
    /\ last = "resize"
    /\ frames >= 1
    /\ Len(particles) = minParticles
    /\ \E i \in 1..Len(particles) : particles[i].p.x > (width + wrapMargin) * Unit

\* C10: after every resize, the initial one included, the particle count is
\* max(80, floor(220 * width * height / (1920 * 1080))): 220 at 1920 x 1080,
\* 80 at 960 x 540, never below 80.
C10_ParticleCount ==
    /\ status \in {"running", "torndown"} =>
          /\ Len(particles) >= 80
          /\ Len(particles) =
                IF (220 * width * height) \div (1920 * 1080) < 80
                THEN 80
                ELSE (220 * width * height) \div (1920 * 1080)
    /\ targetCount(1920, 1080) = 220
    /\ targetCount(960, 540) = 80

\* A resize to 1280 x 720 has grown the array to floor(220 * 4 / 9) = 97.
C10_Witness ==
    /\ last = "resize"
    /\ width = 1280
    /\ height = 720
    /\ Len(particles) = 97

(***************************************************************************)
(* Properties of the frame loop.                                           *)
(***************************************************************************)
\* C11: each scheduled animation callback runs exactly one physics step
\* followed by exactly one render pass, synchronously.  At most one callback
\* is ever pending, so no pass starts before the previous one has finished;
\* a step of the engine is either one whole pass (which writes nothing a
\* handler writes) or one whole handler (which runs no physics).
C11_OnePassPerCallback ==
    [][ /\ Cardinality(pending) <= 1
        /\ (frames' # frames =>
               /\ frames' = frames + 1
               /\ last' = "tick"
               /\ stepInfo'.calls = <<"stepPhysics", "draw">>
               /\ Cardinality(pending') = 1
               /\ pending' \cap pending = {}
               /\ mouse' = mouse
               /\ width' = width /\ height' = height
               /\ Len(particles') = Len(particles)
               /\ Len(waves') <= Len(waves))
        /\ (frames' = frames =>
               /\ last' # "tick"
               /\ stepInfo' = stepInfo
               /\ cells' = cells \/ last' \in {"mount", "resize"}) ]_vars

\* A second pass has run, with an event delivered between or around the
\* passes, and the next callback is the only one pending.
C11_Witness ==
    /\ last = "tick"
    /\ frames >= 2
    /\ events >= 1
    /\ stepInfo.calls = <<"stepPhysics", "draw">>
    /\ Cardinality(pending) = 1

(***************************************************************************)
(* Properties of the forces of one physics step, read off the particles    *)
(* and waves the step started from (stepInfo.ps, stepInfo.ws) at the       *)
(* step's time (clock).                                                    *)
(***************************************************************************)
\* The squared distance of particle q from a point.
Dist2(q, at) ==
    (q.p.x - at.x) * (q.p.x - at.x) + (q.p.y - at.y) * (q.p.y - at.y)

\* |d - r| < e for the distance d whose square is d2, on the squares.
Near(d2, r, e) ==
    /\ d2 < (r + e) * (r + e)
    /\ r - e < 0 \/ d2 > (r - e) * (r - e)

\* Force f has no component toward the point at, seen from q.
Outward(f, q, at) ==
    /\ f.x * (q.p.x - at.x) >= 0
    /\ f.y * (q.p.y - at.y) >= 0

\* The wave example: origin (100, 100), aged 0.1 s, particle 85 px to the
\* right of the origin.
ExampleWave == [origin |-> [x |-> 100 * Unit, y |-> 100 * Unit], t0 |-> 0]
ExampleParticle ==
    [id |-> 0, p |-> [x |-> 185 * Unit, y |-> 100 * Unit], v |-> [x |-> 0, y |-> 0],
     a |-> [x |-> 0, y |-> 0], o |-> [x |-> 0, y |-> 0], phase |-> 0, freq |-> 200]

\* The forces of the waves on q, one after the other, summed.
RECURSIVE SumWaveForces(_, _, _)
SumWaveForces(q, ws, now) ==
    IF ws = <<>> THEN [x |-> 0, y |-> 0]
    ELSE LET f == WaveForce(q, Head(ws), now)
             g == SumWaveForces(q, Tail(ws), now)
         IN  [x |-> f.x + g.x, y |-> f.y + g.y]

C13_ZeroDistanceForces ==
    last = "tick" =>
        \A i \in 1..Len(stepInfo.ps) :
            LET q == stepInfo.ps[i]
                onPointer == q.p = mouse.pos
                onWaves == \A k \in 1..Len(stepInfo.ws) : q.p = stepInfo.ws[k].origin
                still == q.v = [x |-> 0, y |-> 0]
            IN  /\ onPointer => MouseForce(q, mouse) = [x |-> 0, y |-> 0]
                /\ \A k \in 1..Len(stepInfo.ws) :
                      q.p = stepInfo.ws[k].origin =>
                          WaveForce(q, stepInfo.ws[k], clock) = [x |-> 0, y |-> 0]
                /\ still => WanderForce(q, clock) = [x |-> 0, y |-> 0]
                /\ onPointer /\ onWaves /\ still => particles[i].a = FlowForce(q, clock)

\* A step that started with a particle at rest on the pointer, the pointer
\* inside, and on the origin of waves young enough to hold it in their band.
C13_Witness ==
    /\ last = "tick"
    /\ mouse.inside
    /\ Len(stepInfo.ws) >= 1
    /\ WaveRadius(stepInfo.ws[1], clock) < waveThickness * Unit
    /\ \E i \in 1..Len(stepInfo.ps) :
          /\ stepInfo.ps[i].p = mouse.pos
          /\ stepInfo.ps[i].p = stepInfo.ws[1].origin
          /\ stepInfo.ps[i].v = [x |-> 0, y |-> 0]
          /\ particles[i].a = FlowForce(stepInfo.ps[i], clock)

(***************************************************************************)
(* Properties of the handlers.                                             *)
(***************************************************************************)
\* C14: each pointer-down appends exactly one wave, whose origin is the
\* pointer position of that event, and leaves the existing waves as they
\* were; no other handler touches the registry, and a physics step only
\* removes waves, so the origin and start time of a wave never change.
C14_WaveAppended ==
    [][ /\ (last' = "down" =>
               /\ Len(waves') = Len(waves) + 1
               /\ SubSeq(waves', 1, Len(waves)) = waves
               /\ waves'[Len(waves')].origin = mouse'.pos
               /\ waves'[Len(waves')].t0 = clock
               /\ \E pos \in PointerPositions : pos = mouse'.pos)
        /\ (last' \notin {"down", "tick"} => waves' = waves)
        /\ (last' = "tick" =>
               \E kept \in SUBSET (1..Len(waves)) :
                   LET Kept(k) == k \in kept
                   IN  waves' = [m \in 1..Cardinality(kept) |->
                                    waves[SelectSeq([k \in 1..Len(waves) |-> k], Kept)[m]]]) ]_vars

\* Two waves of different origins in the registry, and a
\* later pointer move that took the pointer away from the origin of the second.
C14_Witness ==
    /\ Len(waves) = 2
    /\ waves[1].origin # waves[2].origin
    /\ last = "move"
    /\ mouse.pos # waves[2].origin

(***************************************************************************)
(* Properties of the integration phase.                                    *)
(***************************************************************************)
\* The square of the speed of velocity v.
Speed2(v) == v.x * v.x + v.y * v.y

\* C15: when a particle's speed after damping and clamping is below the
\* minimum drift (20), the injected velocity brings it up to the minimum:
\* the speed used for the position update and the speed at the end of the
\* physics step are at least 20 (granted two steps of the lattice).
C15_MinimumDriftReached ==
    last = "tick" =>
        \A i \in 1..Len(particles) :
            /\ Speed2(stepInfo.vs[i]) >= (minV * Unit - 2) * (minV * Unit - 2)
            /\ Speed2(particles[i].v) >= (minV * Unit - 2) * (minV * Unit - 2)

\* Velocity v after one application of the secondary drag (factor 0.9).
DraggedOnce(v) == [x |-> TDiv(v.x * 900, 1000), y |-> TDiv(v.y * 900, 1000)]

\* C16: in every physics step during which a wave is in the registry when
\* the forces are accumulated, the secondary drag is applied once to every
\* particle's velocity; in a step with no wave then, it is not applied.
C16_DragIffWaveAtAccumulation ==
    last = "tick" =>
        \A i \in 1..Len(particles) :
            particles[i].v = IF Len(stepInfo.ws) > 0
                             THEN DraggedOnce(stepInfo.vs[i])
                             ELSE stepInfo.vs[i]

\* C16, amended: the secondary drag is applied, once to every particle's
\* velocity, in every physics step that leaves a wave in the registry after
\* its pruning; in a step that leaves none it is not applied, the step that
\* prunes the last wave included, although that wave was in the registry
\* when the forces were accumulated.
C16_DragIffWaveKept ==
    last = "tick" =>
        /\ stepInfo.dragged = (Len(waves) > 0)
        /\ \A i \in 1..Len(particles) :
              particles[i].v = IF Len(waves) > 0
                               THEN DraggedOnce(stepInfo.vs[i])
                               ELSE stepInfo.vs[i]

\* The step that pruned the last wave: the wave was there for the forces,
\* and the velocities of the position update were kept as they were.
C16_Witness ==
    /\ last = "tick"
    /\ Len(stepInfo.ws) > 0
    /\ waves = <<>>
    /\ ~stepInfo.dragged
    /\ \E i \in 1..Len(particles) :
          /\ particles[i].v = stepInfo.vs[i]
          /\ DraggedOnce(stepInfo.vs[i]) # stepInfo.vs[i]

(***************************************************************************)
(* Properties of the render pass.                                          *)
(***************************************************************************)
\* A sequence back to front.
Reversed(q) == [k \in 1..Len(q) |-> q[Len(q) + 1 - k]]

\* The buffer buf is a nearest-neighbour buffer of particle index i over
\* the candidates cand: min(5, k) distinct entries out of the k candidates
\* other than i within the cutoff, each with its squared distance, and no
\* candidate left out strictly closer than one kept.
NearestOf(buf, i, cand) ==
    LET within == {cand[n] : n \in {m \in 1..Len(cand) :
                       /\ cand[m] # i
                       /\ LinkD2(particles, i, cand[m]) <= 140 * Unit * 140 * Unit}}
        held == {buf[m].j : m \in 1..Len(buf)}
    IN  /\ Len(buf) = IF Cardinality(within) < 5 THEN Cardinality(within) ELSE 5
        /\ Cardinality(held) = Len(buf)
        /\ held \subseteq within
        /\ \A m \in 1..Len(buf) : buf[m].d2 = LinkD2(particles, i, buf[m].j)
        /\ \A j \in within \ held : \A m \in 1..Len(buf) :
              LinkD2(particles, i, j) >= buf[m].d2

\* C17: for each particle i the neighbour buffer, once all candidates are
\* scanned, holds exactly min(5, k) entries, k the number of candidates
\* other than i within the cutoff, and they are the nearest of those
\* candidates, whatever the order of the candidates (the order the grid
\* yields and its reverse are scanned).
C17_NearestBuffer ==
    last = "tick" =>
        \A i \in 0..(Len(particles) - 1) :
            \E cand \in {candidates(particles[i + 1].p.x, particles[i + 1].p.y,
                                    cells, cols, rows)} :
                /\ NearestOf(nearest(i), i, cand)
                /\ NearestOf(scanCandidates(particles, i, Reversed(cand), <<>>), i, cand)

\* A render pass in which some particle had more than seven candidates
\* within the cutoff, so that entries of its full buffer were replaced.
C17_Witness ==
    /\ last = "tick"
    /\ \E i \in 0..(Len(particles) - 1) :
          /\ Len(nearest(i)) = 5
          /\ Cardinality({j \in Yielded(i + 1) :
                            j # i /\ LinkD2(particles, i, j) <= cellSize * cellSize}) > 7

\* The edges es drawn from particle index i, as <<from, place, to>> with
\* their place in the drawing order of the particle.
EdgesOf(i, es) == {<<i, k, es[k][2]>> : k \in 1..Len(es)}

\* The edges of one render pass.
DrawnEdges == UNION {EdgesOf(i, edgesFrom(i)) : i \in 0..(Len(particles) - 1)}

\* C18: in one render pass no particle is linked to itself, each particle
\* draws at most 5 edges, and each unordered pair of particles is drawn at
\* most twice, at most once from each endpoint; candidates yields each
\* particle index at most once per query.
C18_EdgesOfOnePass ==
    last = "tick" =>
        \E drawn \in {DrawnEdges} :
            /\ \A i \in 0..(Len(particles) - 1) :
                  LET c == candidates(particles[i + 1].p.x, particles[i + 1].p.y,
                                      cells, cols, rows)
                  IN  \A m, n \in 1..Len(c) : c[m] = c[n] => m = n
            /\ \A e \in drawn : e[1] # e[3]
            /\ \A i \in 0..(Len(particles) - 1) :
                  Cardinality({e \in drawn : e[1] = i}) <= 5
            /\ \A e, f \in drawn :
                  (e[1] = f[1] /\ e[3] = f[3]) => e = f
            /\ \A e \in drawn :
                  Cardinality({f \in drawn : {f[1], f[3]} = {e[1], e[3]}}) <= 2

\* A render pass in which some particle draws 5 edges and some pair of
\* particles is drawn twice, once from each endpoint.
C18_Witness ==
    /\ last = "tick"
    /\ \E drawn \in {DrawnEdges} :
          /\ \E i \in 0..(Len(particles) - 1) :
                Cardinality({e \in drawn : e[1] = i}) = 5
          /\ \E e, f \in drawn : e[1] = f[3] /\ e[3] = f[1]

(***************************************************************************)
(* Properties of the pointer state.                                        *)
(***************************************************************************)
\* What the step that started from particle q added to its acceleration
\* besides flow, wander and the waves ws.
PointerShare(q, a, ws, now) ==
    LET rest == VAdd(VAdd(FlowForce(q, now), WanderForce(q, now)), WavesForce(q, ws, now))
    IN  [x |-> a.x - rest.x, y |-> a.y - rest.y]

\* C19: the pointer's inside flag is false before any pointer event, a
\* pointer-move or pointer-enter sets it, a pointer-leave clears it, and
\* no other step (pointer-down and pointer-up among them) changes it; a
\* physics step adds a pointer-avoidance force to a particle only if the
\* flag is true and the particle is closer to the stored pointer position
\* than the avoidance radius of 110 px.
C19_PointerInside ==
    /\ mouse.inside = FALSE
    /\ [][/\ last' \in {"move", "enter"} => mouse'.inside = TRUE
          /\ last' = "leave" => mouse'.inside = FALSE
          /\ last' \notin {"move", "enter", "leave"} => mouse'.inside = mouse.inside
          /\ last' = "tick" =>
                \A i \in 1..Len(particles) :
                    PointerShare(particles[i], particles'[i].a, waves, clock')
                          # [x |-> 0, y |-> 0]
                       => /\ mouse.inside
                          /\ Dist2(particles[i], mouse.pos)
                                < (110 * Unit) * (110 * Unit)]_vars

\* A step that pushed a particle away from the pointer, the pointer having
\* moved in and been pressed; and, in the same step, a particle at more
\* than the avoidance radius that was not pushed.
C19_Witness ==
    /\ last = "tick"
    /\ mouse.inside /\ mouse.down
    /\ \E i \in 1..Len(stepInfo.ps) :
          PointerShare(stepInfo.ps[i], particles[i].a, stepInfo.ws, clock)
             # [x |-> 0, y |-> 0]
    /\ \E i \in 1..Len(stepInfo.ps) :
          /\ Dist2(stepInfo.ps[i], mouse.pos) >= (110 * Unit) * (110 * Unit)
          /\ PointerShare(stepInfo.ps[i], particles[i].a, stepInfo.ws, clock)
                = [x |-> 0, y |-> 0]

(***************************************************************************)
(* Properties of the ordering of handlers and frames.                      *)
(***************************************************************************)
\* Particle index j sits in the bucket of grid cs (c columns, r rows) that
\* indexFor gives for the position of q, and in no other.
BucketedAt(cs, c, r, j, q) ==
    \A k \in 1..Len(cs) :
        (\E n \in 1..Len(cs[k]) : cs[k][n] = j)
            <=> k = indexFor(q.p.x, q.p.y, c, r) + 1

\* C20: what a handler changed between two frames is what the very next
\* frame reads.  In the frame after a pointer-down the wave it pushed is in
\* the registry the force accumulation reads, with a radius >= 0, and its
\* force is part of every particle's acceleration, whatever the pruning of
\* that step does afterwards; in the frame after a resize the step reads
\* the particle array the resize left, fills a grid of the new dimensions
\* and wraps the particles into the new width and height, and the render
\* links particles of that array.
C20_NextFrameSeesHandler ==
    [][ (last' = "tick") =>
          /\ stepInfo'.ws = waves
          /\ stepInfo'.ps = particles
          /\ (last = "down" =>
                /\ Len(waves) >= 1
                /\ waves[Len(waves)] = [origin |-> mouse.pos, t0 |-> clock]
                /\ WaveRadius(waves[Len(waves)], clock') >= 0
                /\ \A i \in 1..Len(particles) :
                      PointerShare(particles[i], particles'[i].a,
                                   SubSeq(waves, 1, Len(waves) - 1), clock')
                         = VAdd(MouseForce(particles[i], mouse),
                                WaveForce(particles[i], waves[Len(waves)], clock')))
          /\ (last = "resize" =>
                /\ width = Max(1, innerW) /\ height = Max(1, innerH)
                /\ width' = width /\ height' = height
                /\ Len(particles) = Max(80, (220 * width * height) \div (1920 * 1080))
                /\ Len(particles') = Len(particles)
                /\ Len(cells') = cols * rows
                /\ cols = Max(1, (width + 139) \div 140)
                /\ rows = Max(1, (height + 139) \div 140)
                /\ \A i \in 1..Len(particles) :
                      BucketedAt(cells', cols, rows, i - 1, particles[i])
                /\ Within(particles', width, height)
                /\ \A i \in 0..(Len(particles') - 1) :
                      \E buf \in {scanCandidates(particles', i,
                                       candidates(particles'[i + 1].p.x,
                                                  particles'[i + 1].p.y,
                                                  cells', cols', rows'), <<>>)} :
                          \A k \in 1..Len(buf) :
                              buf[k].j \in 0..(Len(particles') - 1)) ]_vars

\* A frame that followed a resize to a larger viewport and then a
\* pointer-down: it ran on the grown array and pushed a particle with the
\* wave the pointer-down had just added.
C20_Witness ==
    /\ last = "tick"
    /\ mouse.down
    /\ width = 1280
    /\ Len(stepInfo.ps) > 80
    /\ Len(stepInfo.ws) >= 1
    /\ stepInfo.ws[Len(stepInfo.ws)].origin = mouse.pos
    /\ stepInfo.ws[Len(stepInfo.ws)].t0 = clock - stepInfo.dt
    /\ \E i \in 1..Len(stepInfo.ps) :
          WaveForce(stepInfo.ps[i], stepInfo.ws[Len(stepInfo.ws)], clock)
             # [x |-> 0, y |-> 0]

(***************************************************************************)
(* Properties of the grid's indices.                                       *)
(***************************************************************************)
\* C22: whenever the renderer reads the grid, every index stored in any
\* bucket is an index of the current particle array (0 <= j < length), for
\* any interleaving of resizes with frames: the indices a bucket holds are
\* valid in every state of the engine, and after a step the grid has
\* cols * rows buckets and every index yielded to the renderer is valid.
C22_BucketIndicesValid ==
    /\ \A k \in 1..Len(cells) : \A m \in 1..Len(cells[k]) :
          cells[k][m] \in 0..(Len(particles) - 1)
    /\ last = "tick" =>
          /\ Len(cells) = cols * rows
          /\ \A i \in 1..Len(particles) :
                \A j \in Yielded(i) : j >= 0 /\ j < Len(particles)

\* A second frame that followed a shrinking resize: the array was cut to
\* the minimum, a particle it kept sat beyond the new right margin when the
\* step began, and the grid the renderer reads is full again.
C22_Witness ==
    /\ last = "tick"
    /\ frames >= 2
    /\ Len(particles) = minParticles
    /\ \E i \in 1..Len(stepInfo.ps) :
          stepInfo.ps[i].p.x > (width + wrapMargin) * Unit
    /\ \E k \in 1..Len(cells) : \E m \in 1..Len(cells[k]) :
          cells[k][m] = Len(particles) - 1

(***************************************************************************)
(* Properties of the page.                                                 *)
(***************************************************************************)
\* C21: after each window-resize or toggle-button event has been processed,
\* the animation is mounted if and only if the window is narrow (width <
\* 920) or the user's own setting is on, the setting starting off and
\* flipping on each click of the toggle button, which exists only while
\* the window is wide; going narrow forces the animation on, and going
\* wide again restores the visibility it had just before going narrow.
C21_MountedIffNarrowOrSetting ==
    page.last \in {"mount", "resize", "toggle"} =>
        /\ page.showGraceful = ((innerW < 920) \/ page.setting)
        /\ page.isNarrow = (innerW < 920)
        /\ page.crossing = "narrowed" => page.showGraceful
        /\ page.crossing = "widened" => page.showGraceful = page.before
        /\ page.last = "toggle" => innerW >= 920

\* The user turned the animation on while wide, the window went narrow and
\* is now wide again, with the animation restored to on.
C21_Witness ==
    /\ page.last = "resize"
    /\ page.crossing = "widened"
    /\ page.setting
    /\ page.before
    /\ page.showGraceful
    /\ page.events >= 3

(***************************************************************************)
(* Properties of the PDF export.                                           *)
(***************************************************************************)
\* C23: from the moment an export applies the PDF-safe styles until its
\* canvas capture has finished, the shared PDF-safe style element is in
\* the document, also when two or more exports overlap in time: while any
\* export awaits html2canvas, the style element is present.
C23_StylePresentWhileCapturing ==
    pdf.capturing # {} => pdf.style

=============================================================================
